---- MODULE Spec2Model ----
(***************************************************************************)
(* Model of extract_chromatograms (src/src/eic.py): validation of the      *)
(* metabolite table, unit normalisation, the per-file extraction of the    *)
(* BPC and of one EIC column per metabolite, the AUC summary, zero-row     *)
(* pruning and the combination of metabolite variants.                     *)
(*                                                                         *)
(* Number representation.  Floats are modelled exactly as fixed-point      *)
(* integers:                                                               *)
(*   - a time-valued number x (in whatever unit it is expressed in) is     *)
(*     stored as x * TimeDen, so "x * 60" is n * Sixty and "x / 60" is     *)
(*     n \div Sixty (exact for the whole-second values used here);         *)
(*   - a peak intensity v is stored as v * IntDen; int(v) is n \div IntDen;*)
(*     values produced by int() are stored as plain integers;              *)
(*   - an AUC is stored as its value times 2 * TimeDen, so the trapezoid   *)
(*     rule needs no division;                                             *)
(*   - m/z values are whole numbers; tolerances are compared after         *)
(*     multiplying both sides by PpmDen.                                   *)
(* NaN is a distinguished value outside every numeric domain.              *)
(***************************************************************************)
EXTENDS Integers, Sequences, FiniteSets, TLC

\* ---------------------------------------------------------------- bounds
MaxRows == 2     \* rows of the metabolite table
MaxFiles == 2    \* mzML files of one run
MaxScans == 2    \* spectra of one mzML file
IntDen == 2      \* fixed-point denominator (resolution) of peak intensities
ScanStep == 2    \* seconds between two consecutive spectra of a file

\* ------------------------------------------------------------- constants
Sixty == 60            \* the minutes/seconds factor
PpmDen == 1000000      \* ppm denominator
TimeDen == Sixty       \* fixed-point denominator of time values

NaN == -999999         \* np.nan / None of a numeric column
Unbound == -888888     \* a local variable that was never assigned
NaNName == <<"nan">>   \* a missing value in the name column

\* ------------------------------------------------------- NaN arithmetic
IsNaN(x) == x = NaN
Mul(x, k) == IF IsNaN(x) THEN NaN ELSE x * k
Add(x, y) == IF IsNaN(x) \/ IsNaN(y) THEN NaN ELSE x + y
\* x > y of two floats: false when either is NaN
Gt(x, y) == ~IsNaN(x) /\ ~IsNaN(y) /\ x > y

\* ---------------------------------------------------------- generic helpers
Range(s) == {s[i] : i \in DOMAIN s}

RECURSIVE SeqSum(_)
SeqSum(s) == IF s = <<>> THEN 0 ELSE Add(Head(s), SeqSum(Tail(s)))

\* sorted(...) of a sequence of distinct integers
RECURSIVE Sorted(_)
Sorted(s) ==
    IF s = <<>> THEN <<>>
    ELSE LET m == CHOOSE x \in Range(s) : \A y \in Range(s) : x <= y
         IN  <<m>> \o Sorted(SelectSeq(s, LAMBDA y : y # m))

\* ------------------------------------------------------- python str methods
\* b.startswith(a)
StartsWith(b, a) == Len(a) <= Len(b) /\ SubSeq(b, 1, Len(a)) = a
\* a in b   (substring test)
Contains(b, a) ==
    \E i \in 0..(Len(b) - Len(a)) : SubSeq(b, i + 1, i + Len(a)) = a
\* c.split("#")[0]
RECURSIVE SplitFirst(_)
SplitFirst(c) ==
    IF c = <<>> \/ Head(c) = "#" THEN <<>>
    ELSE <<Head(c)>> \o SplitFirst(Tail(c))
\* str(mass) of a float holding a whole number, e.g. 100.0 -> "100.0"
Digit == <<"0", "1", "2", "3", "4", "5", "6", "7", "8", "9">>
RECURSIVE Digits(_)
Digits(n) == IF n < 10 THEN <<Digit[n + 1]>>
             ELSE Digits(n \div 10) \o <<Digit[(n % 10) + 1]>>
StrOfMass(mass) == Digits(mass) \o <<".", "0">>
\* truthiness of a python str
Truthy(name) == name # <<>>

\* ------------------------------------------------------------ input domains
\* Metabolite names are sequences of characters.
NameSet ==
    { NaNName, <<>>, <<"A">>, <<"A", "A">>, <<"A", "#">>,
      <<"A", "#", "A">>, <<"A", "A", "#">> }
MzSet == {100}
RtSet == {0, ScanStep * TimeDen}          \* 0 s and the time of the 2nd scan
PwSet == {ScanStep * TimeDen}
DefaultPeakWidthSet == {2 * ScanStep * TimeDen}
BaselineSet == {IntDen}                   \* baseline 1.0
MzDaSet == {1}
MzPpmSet == {20000}                       \* 2 % of m/z 100 = 2.0

Row(n, m, r, w) == [name |-> n, mz |-> m, RT |-> r, pw |-> w]
Tables(rows) == UNION { [1..n -> rows] : n \in 0..MaxRows }

\* tables that vary the names and the presence of a mass
NameTables ==
    Tables([name : NameSet, mz : MzSet \cup {NaN}, RT : {NaN}, pw : {NaN}])
\* tables of distinct plain names that vary retention time and peak width
PlainName(i) == [k \in 1..i |-> "A"]
Timing == [RT : RtSet \cup {NaN}, pw : PwSet \cup {NaN}]
GateTables ==
    UNION { { [i \in 1..n |-> Row(PlainName(i), 100, t[i].RT, t[i].pw)] :
              t \in [1..n -> Timing] } : n \in 0..MaxRows }
\* every one-row table of GateTables, and one table of two variants
FewTables ==
    { <<Row(<<"A">>, 100, t.RT, t.pw)>> : t \in Timing } \cup
    { <<Row(<<"A">>, 100, ScanStep * TimeDen, ScanStep * TimeDen),
        Row(<<"A", "#">>, 100, NaN, NaN)>> }

\* A peak, a spectrum without its retention time, an experiment.
Peak(m, v) == [mz |-> m, intensity |-> v]
PeakLists ==
    { <<>>,
      <<Peak(100, IntDen)>>,                  \* 1.0: equal to the baseline
      <<Peak(100, IntDen + 1)>>,              \* between 1.0 and 2.0
      <<Peak(100, 2 * IntDen)>>,              \* 2.0
      <<Peak(102, 2 * IntDen)>>,              \* inside 2 % but outside 1 Da
      <<Peak(100, IntDen), Peak(101, 2 * IntDen)>> }
Shape(l, p) == [ms_level |-> l, peaks |-> p]
ScanShapes ==
    { Shape(1, p) : p \in PeakLists } \cup
    { Shape(l, <<Peak(100, 2 * IntDen)>>) : l \in {2, 3} }
\* spectra are time-ascending: the k-th spectrum is ScanStep seconds after
\* the (k-1)-th
MkExp(shapes) ==
    [k \in DOMAIN shapes |->
        [ms_level |-> shapes[k].ms_level,
         RT |-> (k - 1) * ScanStep * TimeDen,
         peaks |-> shapes[k].peaks]]
Experiments == UNION { { MkExp(s) : s \in [1..n -> ScanShapes] } : n \in 0..MaxScans }

Readable(e) == [readable |-> TRUE, exp |-> e]
Unreadable == [readable |-> FALSE, exp |-> <<>>]
Good == Readable(MkExp(<<Shape(1, <<Peak(100, 2 * IntDen)>>),
                         Shape(1, <<Peak(100, 2 * IntDen)>>)>>))
Quiet == Readable(MkExp(<<Shape(1, <<Peak(100, IntDen)>>),
                          Shape(1, <<Peak(100, IntDen)>>)>>))
NoScans == Readable(<<>>)
EmptyScan == Readable(MkExp(<<Shape(1, <<Peak(100, 2 * IntDen)>>), Shape(1, <<>>)>>))
CannedFiles == {Good, Quiet, NoScans, EmptyScan, Unreadable}

\* file names are distinct; the caller passes them in descending order
Named(fs) == [i \in DOMAIN fs |->
                 [name |-> Len(fs) + 1 - i, readable |-> fs[i].readable,
                  exp |-> fs[i].exp]]
FileLists(files) == UNION { { Named(fs) : fs \in [1..n -> files] } : n \in 0..MaxFiles }
PlainLists == FileLists({Good, Quiet})
RichLists ==
    { Named(<<Readable(e)>>) : e \in Experiments } \cup FileLists(CannedFiles)

\* The inputs of a run: tables rich in names on one plain file, tables rich
\* in RT and peak width on plain files, and a few tables on every experiment
\* and on every list of canned files.
Inputs ==
    (NameTables \X {Named(<<Good>>), Named(<<Quiet>>)})
        \cup (GateTables \X PlainLists)
        \cup (FewTables \X RichLists)

\* ------------------------------------------------------------------- state
VARIABLES
    table,              \* argument df_input, as the caller passes it
    mzML_files,         \* argument mzML_files: <<[name, readable, exp]>>
    mz_unit, mz_ppm, mz_da, time_unit, default_peak_width, baseline,
    results_dir,        \* the contents of results_dir on disk
    pc,                 \* "validate" | "prepare" | "files" | "done" | "error" | "crashed"
    status,             \* state of the st.status widget
    message,            \* text of the st.error call, "" when none
    exc,                \* the exception that ended the call, "none" when none
    df_input,           \* local df_input after filtering and unit conversion
    df_auc,             \* local df_auc
    file_i,             \* position of the file loop in mzML_files
    rt_min, rt_max,     \* locals rt_min, rt_max (Unbound until assigned)
    run,                \* 1: the first call, 2: the repeated call in minutes
    first               \* what the first call left behind

vars == <<table, mzML_files, mz_unit, mz_ppm, mz_da, time_unit,
          default_peak_width, baseline, results_dir, pc, status, message,
          exc, df_input, df_auc, file_i, rt_min, rt_max, run, first>>

args == <<table, mzML_files, mz_unit, mz_ppm, mz_da, time_unit,
          default_peak_width, baseline>>

\* ------------------------------------------------------------ data frames
\* pd.DataFrame(columns=..., index=...): every cell is NaN
Frame(index, columns) ==
    [index |-> index, columns |-> columns,
     val |-> [n \in Range(index) |-> [c \in Range(columns) |-> NaN]]]

\* df_auc.loc[n, c] = v   (a label that is not in the index adds a row)
SetLoc(dfa, n, c, v) ==
    IF n \in Range(dfa.index)
    THEN [dfa EXCEPT !.val[n][c] = v]
    ELSE [index |-> Append(dfa.index, n), columns |-> dfa.columns,
          val |-> (n :> [cc \in Range(dfa.columns) |-> IF cc = c THEN v ELSE NaN])
                      @@ dfa.val]

\* df[name] = ints   (an existing column is overwritten)
SetColumn(df, name, ints) ==
    IF \E k \in DOMAIN df.names : df.names[k] = name
    THEN [df EXCEPT !.cols = [k \in DOMAIN df.names |->
                                 IF df.names[k] = name THEN ints ELSE df.cols[k]]]
    ELSE [df EXCEPT !.names = Append(@, name), !.cols = Append(@, ints)]

\* the column of df called name
Column(df, name) ==
    df.cols[CHOOSE k \in DOMAIN df.names : df.names[k] = name]

\* ------------------------------------------------------------- directories
Absent == <<>>
Present(f) == f # <<>>
EmptyDir ==
    [ftr |-> <<>>, tsv_tables |-> Absent, zip |-> Absent, summary |-> Absent,
     combined |-> Absent, run_params |-> Absent]
\* what an earlier, successful run left in results_dir
OldFrame == [index |-> <<<<"A">>>>, columns |-> <<1>>,
             val |-> (<<"A">> :> (1 :> 2 * TimeDen))]
StaleDir ==
    [ftr |-> (1 :> [time |-> <<>>, BPC |-> <<>>, names |-> <<>>, cols |-> <<>>]),
     tsv_tables |-> Absent, zip |-> <<{1}>>, summary |-> <<OldFrame>>,
     combined |-> <<[names |-> {<<"A">>}, columns |-> <<1>>,
                     val |-> (<<"A">> :> (1 :> 2 * TimeDen))]>>,
     run_params |-> <<[baseline |-> IntDen, time_unit |-> "seconds"]>>]

\* reset_directory(path): delete and re-create
ResetDirectory(dir) == EmptyDir

\* --------------------------------------------------------------- validation
NameColumn(df) == [i \in DOMAIN df |-> df[i].name]
\* Series.is_unique (missing values count as equal to one another)
IsUnique(col) == \A i, j \in DOMAIN col : i # j => col[i] # col[j]
\* any(Series.isna())
AnyNa(col) == \E i \in DOMAIN col : col[i] = NaNName

\* df_input[df_input['mz'].notna()]
DropNoMz(df) == SelectSeq(df, LAMBDA r : ~IsNaN(r.mz))

\* (faulty variant of InSeconds: the peak width is left in minutes)
InSecondsRtOnly(df, unit) ==
    IF unit = "minutes"
    THEN [i \in DOMAIN df |-> [df[i] EXCEPT !.RT = Mul(@, Sixty)]]
    ELSE df

\* RT and peak width in seconds
InSeconds(df, unit) ==
    IF unit = "minutes"
    THEN [i \in DOMAIN df |->
             [df[i] EXCEPT !.RT = Mul(@, Sixty), !.pw = Mul(@, Sixty)]]
    ELSE df

\* --------------------------------------------------------------- extraction
\* the spectra the two scan loops do not skip
Retained(exp) == SelectSeq(exp, LAMBDA s : s.ms_level # 2)

\* rt of the time column
TimeOf(spec, unit) == IF unit = "minutes" THEN spec.RT \div Sixty ELSE spec.RT

\* int(max(intensities)) of a spectrum with at least one peak
BasePeak(spec) ==
    LET m == CHOOSE v \in {p.intensity : p \in Range(spec.peaks)} :
                 \A p \in Range(spec.peaks) : p.intensity <= v
    IN  m \div IntDen

\* the tolerance of the m/z window, times PpmDen
Tolerance(mass) ==
    IF mz_unit = "Da" THEN mz_da * PpmDen ELSE mz_ppm * mass

\* MSSpectrum.findHighestInWindow(mass, tol, tol): the 0-based index of the
\* most intense peak with m/z in [mass - tol, mass + tol] (the first such
\* peak when several are equally intense), -1 when there is none
FindHighestInWindow(spec, mass, tol) ==
    LET inw == { k \in DOMAIN spec.peaks :
                   /\ mass * PpmDen - tol <= spec.peaks[k].mz * PpmDen
                   /\ spec.peaks[k].mz * PpmDen <= mass * PpmDen + tol }
    IN  IF inw = {} THEN -1
        ELSE (CHOOSE k \in inw :
                 \A j \in inw :
                    \/ spec.peaks[j].intensity < spec.peaks[k].intensity
                    \/ (spec.peaks[j].intensity = spec.peaks[k].intensity /\ k <= j)) - 1

\* the comparison with the baseline
AboveBaseline(i) == i * IntDen > baseline

\* the XIC intensity of one spectrum that is inside the RT range
XicIntensity(spec, mass) ==
    LET idx == FindHighestInWindow(spec, mass, Tolerance(mass))
    IN  IF idx > -1
        THEN LET i == spec.peaks[idx + 1].intensity \div IntDen
             IN  IF AboveBaseline(i) THEN i ELSE 0
        ELSE 0

\* `if rt:` of a float: 0.0 is false, everything else (NaN too) is true
RtGiven(rt) == rt # 0

\* rt_min and rt_max after the `if rt:` block, <<rt_min, rt_max>>
RtBorders(rt, peak_width, old) ==
    IF RtGiven(rt)
    THEN IF ~IsNaN(peak_width)
         THEN <<Add(rt, -(peak_width \div 2)), Add(rt, peak_width \div 2)>>
         ELSE <<Add(rt, -(default_peak_width \div 2)),
                Add(rt, default_peak_width \div 2)>>
    ELSE old

\* whether a spectrum is skipped as outside the RT range
OutsideRange(rt, lo, hi, spec) ==
    ~IsNaN(rt) /\ (Gt(lo, spec.RT) \/ Gt(spec.RT, hi))

\* np.trapz(ints, time), times 2 * TimeDen
RECURSIVE Trapz(_, _)
Trapz(ints, time) ==
    IF Len(ints) < 2 THEN 0
    ELSE (time[2] - time[1]) * (ints[1] + ints[2]) + Trapz(Tail(ints), Tail(time))

\* The EIC loop over the rows of df_input, from row i on.  acc holds the
\* locals the loop changes: exc, rt_min, rt_max, df, df_auc.
RECURSIVE EicLoop(_, _, _, _)
EicLoop(kept, fname, i, acc) ==
    IF i > Len(df_input) \/ acc.exc # "none" THEN acc
    ELSE
      LET row == df_input[i]
          metabolite_name == IF Truthy(row.name) THEN row.name ELSE StrOfMass(row.mz)
          b == RtBorders(row.RT, row.pw, <<acc.rt_min, acc.rt_max>>)
          \* reading rt_min before any assignment raises, in the first
          \* spectrum the loop does not skip
          raises == ~IsNaN(row.RT) /\ b[1] = Unbound /\ kept # <<>>
          ints == [k \in DOMAIN kept |->
                      IF OutsideRange(row.RT, b[1], b[2], kept[k]) THEN 0
                      ELSE XicIntensity(kept[k], row.mz)]
      IN  IF raises
          THEN [acc EXCEPT !.exc = "UnboundLocalError"]
          ELSE EicLoop(kept, fname, i + 1,
                 [exc |-> "none", rt_min |-> b[1], rt_max |-> b[2],
                  df |-> SetColumn(acc.df, metabolite_name, ints),
                  df_auc |-> SetLoc(acc.df_auc, metabolite_name, fname,
                                    Trapz(ints, acc.df.time))])

\* ------------------------------------------------------------------ summary
\* df_auc[~(df_auc == 0).all(axis=1)]
PruneZeroRows(dfa) ==
    LET keep == { n \in Range(dfa.index) :
                    ~(\A c \in Range(dfa.columns) : dfa.val[n][c] = 0) }
    IN  [index |-> SelectSeq(dfa.index, LAMBDA n : n \in keep),
         columns |-> dfa.columns,
         val |-> [n \in keep |-> dfa.val[n]]]

\* df_auc.reindex(sorted(df_auc.columns), axis=1)
SortColumns(dfa) == [dfa EXCEPT !.columns = Sorted(@)]

\* (faulty variant of IsEmptyFrame: only the columns are looked at)
IsEmptyFrameColumnsOnly(dfa) == dfa.columns = <<>>

\* df_auc.empty
IsEmptyFrame(dfa) == dfa.index = <<>> \/ dfa.columns = <<>>

\* the test that sums row b into the combined row a
IsVariantOf(b, a) ==
    (Contains(b, a \o <<"#">>) /\ StartsWith(b, a)) \/ a = b

\* the combined AUC table; its row order is that of a python set
Combine(dfa) ==
    LET metabolite_names == { SplitFirst(c) : c \in Range(dfa.index) }
    IN  [names |-> metabolite_names, columns |-> dfa.columns,
         val |-> [a \in metabolite_names |->
                    [filename \in Range(dfa.columns) |->
                        LET bs == SelectSeq(dfa.index, LAMBDA b : IsVariantOf(b, a))
                        IN  SeqSum([k \in DOMAIN bs |-> dfa.val[bs[k]][filename]])]]]

\* ------------------------------------------------------------------ actions
NoLocals ==
    /\ df_input = <<>>
    /\ df_auc = Frame(<<>>, <<>>)
    /\ file_i = 0
    /\ rt_min = Unbound
    /\ rt_max = Unbound

Init ==
    /\ \E in \in Inputs : table = in[1] /\ mzML_files = in[2]
    /\ mz_unit \in {"Da", "ppm"}
    /\ mz_ppm \in MzPpmSet
    /\ mz_da \in MzDaSet
    /\ time_unit = "seconds"
    /\ default_peak_width \in DefaultPeakWidthSet
    /\ baseline \in BaselineSet
    /\ results_dir \in {EmptyDir, StaleDir}
    /\ pc = "validate"
    /\ status = "running"
    /\ message = ""
    /\ exc = "none"
    /\ NoLocals
    /\ run = 1
    /\ first = <<>>

\* st.error(text); status.update(state="error"); return
Fail(text) ==
    /\ message' = text
    /\ status' = "error"
    /\ pc' = "error"

\* an exception leaves the function
Raise(e) ==
    /\ exc' = e
    /\ pc' = "crashed"
    /\ UNCHANGED <<message, status>>

\* the two checks of the name column
Validate ==
    /\ pc = "validate"
    /\ IF ~IsUnique(NameColumn(table))
       THEN Fail("Metabolite names need to be unique.")
       ELSE IF AnyNa(NameColumn(table))
       THEN Fail("Enter a name for each metabolite.")
       ELSE pc' = "prepare" /\ UNCHANGED <<message, status>>
    /\ UNCHANGED <<args, results_dir, exc, df_input, df_auc, file_i,
                   rt_min, rt_max, run, first>>

\* drop the rows without mz, convert to seconds, reset the directories and
\* create df_auc
Prepare ==
    /\ pc = "prepare"
    /\ df_input' = InSeconds(DropNoMz(table), time_unit)
    /\ results_dir' = [ResetDirectory(results_dir) EXCEPT !.tsv_tables = <<<<>>>>]
    /\ df_auc' = Frame(NameColumn(df_input'),
                       [i \in DOMAIN mzML_files |-> mzML_files[i].name])
    /\ file_i' = 1
    /\ pc' = "files"
    /\ UNCHANGED <<args, status, message, exc, rt_min, rt_max, run, first>>

\* one iteration of the file loop: load the file, build time and BPC, build
\* one column per metabolite, save the table
ProcessFile ==
    /\ pc = "files"
    /\ file_i <= Len(mzML_files)
    /\ LET file == mzML_files[file_i]
           kept == Retained(file.exp)
       IN  IF ~file.readable
           THEN /\ Raise("RuntimeError")
                /\ UNCHANGED <<results_dir, df_auc, file_i, rt_min, rt_max>>
           ELSE IF \E k \in DOMAIN kept : kept[k].peaks = <<>>
           THEN /\ Raise("ValueError")
                /\ UNCHANGED <<results_dir, df_auc, file_i, rt_min, rt_max>>
           ELSE
             LET df0 == [time |-> [k \in DOMAIN kept |-> TimeOf(kept[k], time_unit)],
                         BPC |-> [k \in DOMAIN kept |-> BasePeak(kept[k])],
                         names |-> <<>>, cols |-> <<>>]
                 r == EicLoop(kept, file.name, 1,
                              [exc |-> "none", rt_min |-> rt_min, rt_max |-> rt_max,
                               df |-> df0, df_auc |-> df_auc])
             IN  /\ rt_min' = r.rt_min
                 /\ rt_max' = r.rt_max
                 /\ df_auc' = r.df_auc
                 /\ IF r.exc # "none"
                    THEN Raise(r.exc) /\ UNCHANGED <<results_dir, file_i>>
                    ELSE /\ results_dir' =
                              [results_dir EXCEPT
                                 !.ftr = (file.name :> r.df) @@ @,
                                 !.tsv_tables = <<(file.name :> r.df) @@ @[1]>>]
                         /\ file_i' = file_i + 1
                         /\ UNCHANGED <<pc, message, status, exc>>
    /\ UNCHANGED <<args, df_input, run, first>>

\* after the file loop: archive the tsv tables, prune df_auc, write the
\* summaries or report that nothing was detected
Finish ==
    /\ pc = "files"
    /\ file_i > Len(mzML_files)
    /\ LET zipped == [results_dir EXCEPT !.zip = <<DOMAIN results_dir.tsv_tables[1]>>,
                                         !.tsv_tables = Absent]
           pruned == PruneZeroRows(SortColumns(df_auc))
       IN  /\ df_auc' = pruned
           /\ IF IsEmptyFrame(pruned)
              THEN /\ Fail("No metabolites detected from given input.")
                   /\ results_dir' = zipped
              ELSE /\ results_dir' =
                        [zipped EXCEPT
                           !.summary = <<pruned>>,
                           !.combined = <<Combine(pruned)>>,
                           !.run_params = <<[baseline |-> baseline,
                                             time_unit |-> time_unit]>>]
                   /\ pc' = "done"
                   /\ UNCHANGED <<message, status>>
    /\ UNCHANGED <<args, exc, df_input, file_i, rt_min, rt_max, run, first>>

\* The caller runs the extraction a second time on the same files, with
\* time_unit = "minutes" and the RT and peak width of every row given in
\* minutes (the value in seconds divided by 60).
Rerun ==
    /\ pc \in {"done", "error", "crashed"}
    /\ run = 1
    /\ first' = <<[pc |-> pc, exc |-> exc, message |-> message,
                   results_dir |-> results_dir, df_input |-> df_input,
                   file_i |-> file_i, rt_min |-> rt_min, rt_max |-> rt_max]>>
    /\ run' = 2
    /\ time_unit' = "minutes"
    /\ table' = [i \in DOMAIN table |->
                    [table[i] EXCEPT
                       !.RT = IF IsNaN(@) THEN NaN ELSE @ \div Sixty,
                       !.pw = IF IsNaN(@) THEN NaN ELSE @ \div Sixty]]
    /\ pc' = "validate"
    /\ status' = "running"
    /\ message' = ""
    /\ exc' = "none"
    /\ df_input' = <<>>
    /\ df_auc' = Frame(<<>>, <<>>)
    /\ file_i' = 0
    /\ rt_min' = Unbound
    /\ rt_max' = Unbound
    /\ UNCHANGED <<mzML_files, mz_unit, mz_ppm, mz_da, default_peak_width,
                   baseline, results_dir>>

Next == Validate \/ Prepare \/ ProcessFile \/ Finish \/ Rerun

Spec == Init /\ [][Next]_vars

\* ==================================================================== claims
\* helpers of the claims
Terminal == pc \in {"done", "error", "crashed"}
\* the directory was reset by the current call, so what it holds is this call's
Extracting == file_i >= 1
FileNames == {mzML_files[i].name : i \in DOMAIN mzML_files}
ExpOf(fname) == (CHOOSE i \in DOMAIN mzML_files : mzML_files[i].name = fname)
ExpNamed(fname) == mzML_files[ExpOf(fname)].exp
ColumnName(row) == IF Truthy(row.name) THEN row.name ELSE StrOfMass(row.mz)
HasColumn(df, name) == \E k \in DOMAIN df.names : df.names[k] = name
\* the AUC of column name in the saved table of file fname, NaN when the
\* table has no such column
AucOf(name, fname) ==
    LET df == results_dir.ftr[fname]
    IN  IF HasColumn(df, name) THEN Trapz(Column(df, name), df.time) ELSE NaN
\* the RT window a row defines by itself
OwnWindow(row) ==
    LET w == IF IsNaN(row.pw) THEN default_peak_width ELSE row.pw
    IN  <<row.RT - w \div 2, row.RT + w \div 2>>
InOwnWindow(row, spec) ==
    OwnWindow(row)[1] <= spec.RT /\ spec.RT <= OwnWindow(row)[2]

\* C1: in the combined table of a finished run, the cell of base name a and
\* file f is the sum of exactly the summary rows b with b = a or b starting
\* with a + "#" (checked on summaries whose cells are all computed values).
C1_VariantCombination ==
    (pc = "done" /\ \A n \in Range(results_dir.summary[1].index) :
                       \A f \in Range(results_dir.summary[1].columns) :
                          ~IsNaN(results_dir.summary[1].val[n][f]))
    => LET s == results_dir.summary[1]
           c == results_dir.combined[1]
       IN  /\ c.names = { SplitFirst(b) : b \in Range(s.index) }
           /\ \A a \in c.names : \A f \in Range(s.columns) :
                LET bs == SelectSeq(s.index,
                             LAMBDA b : b = a \/ StartsWith(b, a \o <<"#">>))
                IN  c.val[a][f] = SeqSum([k \in DOMAIN bs |-> s.val[bs[k]][f]])

\* C2: in every saved table, the column of a metabolite with an RT holds 0
\* for each spectrum outside the metabolite's own window [rt - w/2, rt + w/2]
\* and the mass evaluation for each spectrum inside it; the column of a
\* metabolite without RT holds the mass evaluation for every spectrum.
C2_RtGating ==
    Extracting =>
      \A fname \in FileNames \cap DOMAIN results_dir.ftr :
        LET kept == Retained(ExpNamed(fname))
            df == results_dir.ftr[fname]
        IN  \A j \in DOMAIN df_input :
              LET row == df_input[j]
                  col == Column(df, ColumnName(row))
              IN  \A k \in DOMAIN kept :
                    IF ~IsNaN(row.RT) /\ ~InOwnWindow(row, kept[k])
                    THEN col[k] = 0
                    ELSE col[k] = XicIntensity(kept[k], row.mz)

\* C3: every saved table has exactly one row per MS level 1 spectrum of its
\* file, in time, BPC and every metabolite column.
C3_OnlyMs1 ==
    Extracting =>
      \A fname \in FileNames \cap DOMAIN results_dir.ftr :
        LET n == Cardinality({k \in DOMAIN ExpNamed(fname) :
                                 ExpNamed(fname)[k].ms_level = 1})
            df == results_dir.ftr[fname]
        IN  /\ Len(df.time) = n
            /\ Len(df.BPC) = n
            /\ \A c \in DOMAIN df.cols : Len(df.cols[c]) = n

\* C4: for a spectrum that passes RT gating and in which the window search
\* finds a peak of intensity v, the column holds the found intensity when
\* v > baseline and 0 when v <= baseline.
C4_BaselineStrict ==
    Extracting =>
      \A fname \in FileNames \cap DOMAIN results_dir.ftr :
        LET kept == Retained(ExpNamed(fname))
            df == results_dir.ftr[fname]
        IN  \A j \in DOMAIN df_input : \A k \in DOMAIN kept :
              LET row == df_input[j]
                  col == Column(df, ColumnName(row))
                  idx == FindHighestInWindow(kept[k], row.mz, Tolerance(row.mz))
                  v == kept[k].peaks[idx + 1].intensity
              IN  (/\ IsNaN(row.RT) \/ (row.RT # 0 /\ InOwnWindow(row, kept[k]))
                   /\ idx > -1)
                  => IF v > baseline THEN col[k] = v \div IntDen ELSE col[k] = 0

\* C5: the rows of the summary a finished run wrote are the names of the
\* input rows with a mass, minus those whose AUC is zero in every file, and
\* every cell is the AUC computed for that metabolite and file.
C5_ZeroRowPruning ==
    pc = "done" =>
      LET s == results_dir.summary[1]
          withMz == { table[i].name : i \in { j \in DOMAIN table : ~IsNaN(table[j].mz) } }
      IN  /\ Range(s.index) =
               withMz \ { n \in withMz : \A f \in FileNames : AucOf(n, f) = 0 }
          /\ \A n \in Range(s.index) : \A f \in Range(s.columns) :
                ~IsNaN(s.val[n][f]) /\ s.val[n][f] = AucOf(n, f)

\* C6: when pruning leaves no row the run ends in the error state after the
\* file loop, with no summary.tsv, summary-combined.tsv or run-params.txt in
\* the results directory; a summary that is written always has a row.
NoDetection ==
    pc = "error" /\ message = "No metabolites detected from given input."
C6_DetectionFailure ==
    /\ NoDetection =>
          /\ file_i > Len(mzML_files)
          /\ status = "error"
          /\ ~Present(results_dir.summary)
          /\ ~Present(results_dir.combined)
          /\ ~Present(results_dir.run_params)
    /\ (Extracting /\ Terminal /\ pc # "crashed" /\ df_auc.index = <<>>) => NoDetection
    /\ (Extracting /\ Present(results_dir.summary)) =>
          /\ pc = "done"
          /\ results_dir.summary[1].index # <<>>
C6_Witness ==
    /\ NoDetection
    /\ df_input # <<>>
    /\ Len(mzML_files) >= 1
    /\ \A f \in FileNames : f \in DOMAIN results_dir.ftr

\* C7: a table with two equal names, or with a missing or empty name, ends
\* the run in the error state before the directory is reset and before any
\* file is loaded.
BadNames(df) ==
    \/ ~IsUnique(NameColumn(df))
    \/ \E i \in DOMAIN df : df[i].name = NaNName \/ df[i].name = <<>>
C7_ValidationGate ==
    BadNames(table) => (pc \in {"validate", "error"} /\ file_i = 0)

\* C8: when file N fails, the tables of the files before it are still there
\* and the summary tables are written for the files processed before it
\* (unless nothing was detected in them).
ProcessedAuc ==
    LET done == { mzML_files[i].name : i \in 1..(file_i - 1) }
    IN  [index |-> SelectSeq(df_auc.index, LAMBDA n : n \in DOMAIN df_auc.val),
         columns |-> SelectSeq(df_auc.columns, LAMBDA c : c \in done),
         val |-> [n \in DOMAIN df_auc.val |-> [c \in done |-> df_auc.val[n][c]]]]
C8_FileFailureIsolation ==
    pc = "crashed" =>
      /\ \A i \in 1..(file_i - 1) : mzML_files[i].name \in DOMAIN results_dir.ftr
      /\ PruneZeroRows(ProcessedAuc).index # <<>> =>
            Present(results_dir.summary) /\ Present(results_dir.combined)

\* C9: a file with an MS level 1 spectrum without peaks is processed like
\* any other: once the loop is past it its table is saved, with BPC 0 and 0
\* in every metabolite column at that spectrum.
C9_EmptyScan ==
    \A i \in DOMAIN mzML_files :
      LET file == mzML_files[i]
          ms1 == SelectSeq(file.exp, LAMBDA sp : sp.ms_level = 1)
      IN  (/\ Extracting
           /\ file_i > i \/ (file_i = i /\ pc = "crashed")
           /\ file.readable
           /\ \E k \in DOMAIN ms1 : ms1[k].peaks = <<>>)
          => /\ exc # "ValueError"
             /\ file.name \in DOMAIN results_dir.ftr
             /\ \A k \in DOMAIN ms1 : ms1[k].peaks = <<>> =>
                   LET df == results_dir.ftr[file.name]
                   IN  Len(df.BPC) >= k /\ df.BPC[k] = 0

\* C10: the run in minutes, on the same files with RT and peak width divided
\* by 60, ends like the run in seconds, with the same RT and peak width in
\* seconds (converted once), the same RT borders, identical BPC and
\* metabolite columns, a time axis 60 times smaller and AUC values 60 times
\* smaller in every cell of both summaries.
SameMatrixBy60(a, b) ==
    /\ Present(a) <=> Present(b)
    /\ Present(a) =>
          /\ DOMAIN a[1].val = DOMAIN b[1].val
          /\ a[1].columns = b[1].columns
          /\ \A n \in DOMAIN a[1].val : \A f \in Range(a[1].columns) :
                a[1].val[n][f] = Mul(b[1].val[n][f], Sixty)
C10_UnitRoundTrip ==
    (run = 2 /\ Terminal) =>
      LET f == first[1]
      IN  /\ pc = f.pc /\ exc = f.exc /\ message = f.message
          /\ file_i = f.file_i
          /\ df_input = f.df_input
          /\ rt_min = f.rt_min /\ rt_max = f.rt_max
          /\ Extracting =>
               /\ DOMAIN results_dir.ftr = DOMAIN f.results_dir.ftr
               /\ \A n \in DOMAIN results_dir.ftr :
                     LET d1 == f.results_dir.ftr[n]
                         d2 == results_dir.ftr[n]
                     IN  /\ d1.names = d2.names
                         /\ d1.cols = d2.cols
                         /\ d1.BPC = d2.BPC
                         /\ DOMAIN d1.time = DOMAIN d2.time
                         /\ \A k \in DOMAIN d1.time : d1.time[k] = Sixty * d2.time[k]
               /\ SameMatrixBy60(f.results_dir.summary, results_dir.summary)
               /\ Present(results_dir.summary) =>
                     f.results_dir.summary[1].index = results_dir.summary[1].index
               /\ SameMatrixBy60(f.results_dir.combined, results_dir.combined)
C10_Witness ==
    /\ run = 2
    /\ pc = "done"
    /\ time_unit = "minutes"
    /\ \E i \in DOMAIN table : ~IsNaN(table[i].RT) /\ table[i].RT # 0 /\ ~IsNaN(table[i].pw)
    /\ \E n \in DOMAIN results_dir.summary[1].val :
          \E f \in Range(results_dir.summary[1].columns) :
             results_dir.summary[1].val[n][f] > 0
    /\ \E n \in DOMAIN results_dir.ftr :
          \E c \in DOMAIN results_dir.ftr[n].cols :
             \E k \in DOMAIN results_dir.ftr[n].cols[c] :
                /\ results_dir.ftr[n].cols[c][k] = 0
                /\ results_dir.ftr[n].BPC[k] > 0

====
